---- MODULE Spec2Model ----
(***************************************************************************)
(* A model of the offline pipeline of juriscraper-api:                     *)
(*   scripts/utils.py   stable_id, slugify                                 *)
(*   scripts/scrape.py  harvest_one and the loop over DEFAULT_COURTS       *)
(*   scripts/embed.py   load_records and the index build                   *)
(* Text is a sequence of one-character strings, an optional value is a     *)
(* sequence of length at most one (None is the empty one), a date is a day *)
(* number.                                                                 *)
(***************************************************************************)
EXTENDS Integers, Sequences, FiniteSets, TLC

\* ------------------------------------------------------------------ bounds
\* rows a scraper returns, at most
MaxRecords == 2
\* the limit argument of harvest_one ranges over 0..MaxLimit
MaxLimit == 2
\* times the harvest script is started
MaxRuns == 2
\* lines of one file of data/, at most
MaxLines == 2
\* SHARD_SIZE ranges over 1..MaxShardSize
MaxShardSize == 2
\* index builds into the same index/ directory
MaxBuilds == 2

\* --------------------------------------------------------- python values
None == <<>>
Some(v) == <<v>>
IsNone(o) == Len(o) = 0
Val(o) == o[1]

\* str(x) inside an f-string: None prints as the four letters None
Str(o) == IF IsNone(o) THEN <<"N", "o", "n", "e">> ELSE Val(o)

\* ------------------------------------------------------ scripts/utils.py
Uppers == <<"A", "B", "C", "D", "E", "F", "G", "H", "I", "J", "K", "L", "M">>
            \o <<"N", "O", "P", "Q", "R", "S", "T", "U", "V", "W", "X", "Y", "Z">>
Lowers == <<"a", "b", "c", "d", "e", "f", "g", "h", "i", "j", "k", "l", "m">>
            \o <<"n", "o", "p", "q", "r", "s", "t", "u", "v", "w", "x", "y", "z">>
Digits == <<"0", "1", "2", "3", "4", "5", "6", "7", "8", "9">>
Range(s) == {s[j] : j \in 1..Len(s)}

\* str.lower()
LowerOf(c) ==
  IF c \in Range(Uppers) THEN Lowers[CHOOSE j \in 1..Len(Uppers) : Uppers[j] = c] ELSE c
Lower(s) == [j \in 1..Len(s) |-> LowerOf(s[j])]

\* what str.strip() removes, and the class [a-zA-Z0-9_-]
WhiteSpace == {" "}
SlugChars == Range(Uppers) \cup Range(Lowers) \cup Range(Digits) \cup {"_", "-"}

RECURSIVE LStrip(_, _)
LStrip(s, drop) ==
  IF s # <<>> /\ Head(s) \in drop THEN LStrip(Tail(s), drop) ELSE s
RECURSIVE RStrip(_, _)
RStrip(s, drop) ==
  IF s # <<>> /\ s[Len(s)] \in drop THEN RStrip(SubSeq(s, 1, Len(s) - 1), drop) ELSE s
Strip(s, drop) == RStrip(LStrip(s, drop), drop)

\* re.sub(r"[^a-zA-Z0-9_-]+", "-", s): a run of other characters becomes one "-"
RECURSIVE SubUnsafe(_, _)
SubUnsafe(s, inRun) ==
  IF s = <<>> THEN <<>>
  ELSE IF Head(s) \in SlugChars
       THEN <<Head(s)>> \o SubUnsafe(Tail(s), FALSE)
       ELSE IF inRun THEN SubUnsafe(Tail(s), TRUE)
            ELSE <<"-">> \o SubUnsafe(Tail(s), TRUE)

\* re.sub(r"-+", "-", s)
RECURSIVE SubDashes(_, _)
SubDashes(s, inRun) ==
  IF s = <<>> THEN <<>>
  ELSE IF Head(s) = "-"
       THEN IF inRun THEN SubDashes(Tail(s), TRUE)
            ELSE <<"-">> \o SubDashes(Tail(s), TRUE)
       ELSE <<Head(s)>> \o SubDashes(Tail(s), FALSE)

slugify(s) ==
  Strip(SubDashes(SubUnsafe(Lower(Strip(s, WhiteSpace)), FALSE), FALSE), {"-"})

\* sha1(text).hexdigest()[:16]: the digest is a token determined by the text and
\* by nothing else; distinct texts of the model get distinct digests.
stable_id(text) == <<"sha1_16", text>>

\* ----------------------------------------------------- scripts/scrape.py
US == <<"u", "n", "i", "t", "e", "d", "_", "s", "t", "a", "t", "e", "s", ".">>
FA == <<"f", "e", "d", "e", "r", "a", "l", "_", "a", "p", "p", "e", "l", "l", "a", "t", "e", ".">>
DEFAULT_COURTS ==
  << US \o FA \o <<"c", "a", "9", "_", "p">>,
     US \o FA \o <<"c", "a", "f", "c">>,
     US \o FA \o <<"c", "a", "5">>,
     US \o FA \o <<"c", "a", "2", "_", "p">>,
     US \o FA \o <<"s", "c", "o", "t", "u", "s", "_", "s", "l", "i", "p">> >>

Fields == {"case_names", "download_urls", "docket_numbers", "case_dates",
           "precedential_statuses", "neutral_citations", "summaries",
           "case_names_urls", "urls"}

\* datetime.utcnow().date(), as a day number
Today == 20
\* the days_back and limit the script passes, and harvest_one's defaults
DefaultDaysBack == 7
DefaultLimit == 200

VARIABLES
  courts,     \* the court paths the run iterates over
  upstream,   \* court path -> what its juriscraper module gives (import, Site(), parse())
  today,      \* the date of the run
  days_back,  \* harvest_one's arguments
  limit,
  k,          \* position of the loop over courts (1-based)
  hpc,        \* "idle": between two harvest_one calls; "loop": in its for loop; "write"
  i,          \* rows of the current site the for loop has taken
  records,    \* harvest_one's records list
  data,       \* the data/ directory: slug -> [exists, lines]
  status,     \* of the script: "running", "done", "crashed"
  failure,    \* what raised, when status is "crashed"
  log,        \* the lines printed by this run: one "wrote n -> fname" per harvest
  runs,       \* times the script has been started
  firstRun    \* data/ as the first run of the script left it

hvars == <<courts, upstream, today, days_back, limit, k, hpc, i, records, data,
           status, failure, log, runs, firstRun>>

VARIABLES
  raw,        \* the data/ directory as embed.py finds it: files in glob order, [stem, lines]
  shard_size, \* SHARD_SIZE
  encoder,    \* how the loaded model answers encode(): [delta, dim]
  bpc,        \* position of the build
  loaded,     \* the (record, stem) pairs load_records has yielded
  items,      \* the items list
  vecs,       \* what encode() returned: [count, dim]
  si,         \* the loop variable i of the shard loop
  shards,     \* the shards list
  index,      \* the shard files of index/: shard id -> [state, by, doc]
  manifest,   \* index/manifest.json: [state, by, doc]
  build       \* number of the build running (the first is 1)

bvars == <<raw, shard_size, encoder, bpc, loaded, items, vecs, si, shards, index,
           manifest, build>>
vars == <<hvars, bvars>>

\* A column of a parsed site: absent from site.__dict__, or a list.
Missing == [present |-> FALSE, seq |-> <<>>]
Column(s) == [present |-> TRUE, seq |-> s]

\* site.__dict__[name][idx] inside try/except: a missing name or a short list
\* gives None (idx is 0-based and never negative here).
col(site, name, idx) ==
  LET c == site.cols[name]
  IN  IF c.present /\ idx + 1 <= Len(c.seq) THEN Some(c.seq[idx + 1]) ELSE None

\* Python's `a or b` on optional text
Or(a, b) == IF IsNone(a) \/ Val(a) = <<>> THEN b ELSE a

\* f"{module_path}|{col('case_names', i)}|{col('download_urls', i)}"
IdText(module_path, case_name, download_url) ==
  module_path \o <<"|">> \o Str(case_name) \o <<"|">> \o Str(download_url)

\* the rec dict of one row
Rec(module_path, site, idx) ==
  [ id |-> stable_id(IdText(module_path, col(site, "case_names", idx),
                            col(site, "download_urls", idx))),
    court_path |-> module_path,
    case_name |-> col(site, "case_names", idx),
    docket |-> col(site, "docket_numbers", idx),
    date_filed |-> col(site, "case_dates", idx),
    precedential_status |-> col(site, "precedential_statuses", idx),
    neutral_citation |-> col(site, "neutral_citations", idx),
    summary |-> col(site, "summaries", idx),
    download_url |-> col(site, "download_urls", idx),
    source_url |-> Or(col(site, "case_names_urls", idx), col(site, "urls", idx)) ]

\* rec["date_filed"] and rec["date_filed"] < cutoff   (a date is never falsy)
SkipOnOrBefore(date_filed, cutoff) == ~IsNone(date_filed) /\ Val(date_filed) <= cutoff
Skip(date_filed, cutoff) == ~IsNone(date_filed) /\ Val(date_filed) < cutoff

\* datetime.utcnow().date() - timedelta(days=days_back)
Cutoff(t, d) == t - d

\* with fname.open("wb"): the file is replaced by the records
OpenAppend(old, recs) == [exists |-> TRUE, lines |-> old.lines \o recs]
OpenWrite(old, recs) == [exists |-> TRUE, lines |-> recs]

NoFile == [exists |-> FALSE, lines |-> <<>>]
Slugs(paths) == {slugify(paths[c]) : c \in 1..Len(paths)}

\* harvest_one, from its start to the head of its for loop: import_module, Site(),
\* parse() and len(site.case_names) each may raise, and nothing catches it.
Begin ==
  /\ status = "running" /\ hpc = "idle" /\ k <= Len(courts)
  /\ LET site == upstream[courts[k]]
     IN  IF site.fail # "none"
         THEN /\ status' = "crashed"
              /\ failure' = <<site.fail, courts[k]>>
              /\ UNCHANGED <<hpc, i, records>>
         ELSE IF ~site.cols["case_names"].present
         THEN /\ status' = "crashed"
              /\ failure' = <<"len(site.case_names)", courts[k]>>
              /\ UNCHANGED <<hpc, i, records>>
         ELSE /\ hpc' = "loop" /\ i' = 0 /\ records' = <<>>
              /\ UNCHANGED <<status, failure>>
  /\ UNCHANGED <<courts, upstream, today, days_back, limit, k, data, log, runs, firstRun>>
  /\ UNCHANGED bvars

\* one iteration of the for loop: build rec, filter on the date, append, break on limit
LoopStep ==
  /\ status = "running" /\ hpc = "loop"
  /\ i < Len(upstream[courts[k]].cols["case_names"].seq)
  /\ LET rec == Rec(courts[k], upstream[courts[k]], i)
     IN  IF Skip(rec.date_filed, Cutoff(today, days_back))
         THEN UNCHANGED <<records, hpc>>
         ELSE /\ records' = Append(records, rec)
              /\ hpc' = IF Len(records') >= limit THEN "write" ELSE "loop"
  /\ i' = i + 1
  /\ UNCHANGED <<courts, upstream, today, days_back, limit, k, data, status, failure,
                 log, runs, firstRun>>
  /\ UNCHANGED bvars

\* the range is exhausted
LoopEnd ==
  /\ status = "running" /\ hpc = "loop"
  /\ i >= Len(upstream[courts[k]].cols["case_names"].seq)
  /\ hpc' = "write"
  /\ UNCHANGED <<courts, upstream, today, days_back, limit, k, i, records, data, status,
                 failure, log, runs, firstRun>>
  /\ UNCHANGED bvars

\* the file of the court is written and harvest_one returns to the loop over courts
WriteFile ==
  /\ status = "running" /\ hpc = "write"
  /\ LET fname == slugify(courts[k])
     IN  /\ data' = [data EXCEPT ![fname] = OpenWrite(data[fname], records)]
         /\ log' = Append(log, [wrote |-> Len(records), fname |-> fname])
  /\ hpc' = "idle"
  /\ k' = k + 1
  /\ status' = IF k + 1 > Len(courts) THEN "done" ELSE "running"
  /\ UNCHANGED <<courts, upstream, today, days_back, limit, i, records, failure, runs,
                 firstRun>>
  /\ UNCHANGED bvars

\* the script is started again, on the same upstream data and the same day
Rerun ==
  /\ status \in {"done", "crashed"} /\ runs < MaxRuns
  /\ runs' = runs + 1
  /\ firstRun' = IF runs = 1 THEN data ELSE firstRun
  /\ status' = "running" /\ failure' = <<>> /\ hpc' = "idle" /\ k' = 1
  /\ i' = 0 /\ records' = <<>> /\ log' = <<>>
  /\ UNCHANGED <<courts, upstream, today, days_back, limit, data>>
  /\ UNCHANGED bvars

HNext == Begin \/ LoopStep \/ LoopEnd \/ WriteFile \/ Rerun

\* ------------------------------------------------------- harvest inputs
\* What a juriscraper module can give: a failure at one of the three external
\* calls, or a parsed site. Rows carry a case name, a download url and a date; the
\* other columns hold text naming the column and the row. One column at most
\* deviates: it is absent, or one entry short.
CaseNames == << <<"x">>, <<"x", "|", "y">> >>
DownloadUrls == << <<"y", "|", "z">>, <<"z">> >>
RowKeys == 1..2
CaseDates(t) == {t - 8, t - 7, t - 6}
DaysBack == {DefaultDaysBack - 1, DefaultDaysBack}

FailSite(kind) == [fail |-> kind, cols |-> [f \in Fields |-> Missing]]
FullColumn(f, keys, dates) ==
  CASE f = "case_names" -> [j \in 1..Len(keys) |-> CaseNames[keys[j]]]
    [] f = "download_urls" -> [j \in 1..Len(keys) |-> DownloadUrls[keys[j]]]
    [] f = "case_dates" -> dates
    [] OTHER -> [j \in 1..Len(keys) |-> <<f, ToString(j)>>]
ParsedSite(keys, dates, dev, kind) ==
  [ fail |-> "none",
    cols |-> [f \in Fields |->
               IF f # dev THEN Column(FullColumn(f, keys, dates))
               ELSE IF kind = "missing" THEN Missing
               ELSE Column(SubSeq(FullColumn(f, keys, dates), 1, Len(keys) - 1))] ]

FailKinds == {"import_module", "Site()", "parse()"}
HarvestSites(t) ==
  {FailSite(kind) : kind \in FailKinds}
  \cup UNION { {ParsedSite(keys, dates, dev, kind) :
                  keys \in [1..n -> RowKeys], dates \in [1..n -> CaseDates(t)],
                  dev \in Fields \cup {"none"}, kind \in {"missing", "short"}} :
               n \in 0..MaxRecords }
RunSites(t) ==
  {FailSite(kind) : kind \in FailKinds}
  \cup {ParsedSite(<<>>, <<>>, "none", "missing"),
        ParsedSite(<<1>>, <<t - 6>>, "none", "missing")}

InitScript ==
  /\ k = 1 /\ hpc = "idle" /\ i = 0 /\ records = <<>>
  /\ data = [s \in Slugs(courts) |-> NoFile]
  /\ status = "running" /\ failure = <<>> /\ log = <<>>
  /\ runs = 1 /\ firstRun = data

\* the script as written: every court of DEFAULT_COURTS, days_back=7, limit=200
InitRun ==
  /\ courts = DEFAULT_COURTS
  /\ today = Today
  /\ upstream \in [Range(DEFAULT_COURTS) -> RunSites(Today)]
  /\ days_back = DefaultDaysBack /\ limit = DefaultLimit
  /\ InitScript

\* harvest_one on one court, over every site, days_back and limit of the bounds
OneCourt == <<"U", "S", ".", "c", "a", "5">>
InitHarvest ==
  /\ courts = <<OneCourt>>
  /\ today = Today
  /\ upstream \in [{OneCourt} -> HarvestSites(Today)]
  /\ days_back \in DaysBack /\ limit \in 0..MaxLimit
  /\ InitScript

\* ------------------------------------------------------ scripts/embed.py
MODEL_NAME == "sentence-transformers/all-MiniLM-L6-v2"
DIM == 384

Min(a, b) == IF a <= b THEN a ELSE b
Max(a, b) == IF a >= b THEN a ELSE b

\* s[a:b] for 0 <= a <= b
Slice(s, a, b) == SubSeq(s, a + 1, Min(b, Len(s)))

\* f"{n:04d}": the decimal digits, padded with zeros to four at least
RECURSIVE Decimal(_)
Decimal(n) == IF n < 10 THEN <<Digits[n + 1]>> ELSE Decimal(n \div 10) \o <<Digits[(n % 10) + 1]>>
RECURSIVE ZeroPad(_, _)
ZeroPad(s, width) == IF Len(s) >= width THEN s ELSE ZeroPad(<<"0">> \o s, width)

\* f"shard_{i//SHARD_SIZE:04d}"
shard_id(start, size) == <<"s", "h", "a", "r", "d", "_">> \o ZeroPad(Decimal(start \div size), 4)

\* A line of a store file: None when orjson cannot decode it, else the record.
\* Of a record the build carries the id, the court path and the other fields as
\* they are; the model keeps the first two.
Malformed == None
StemText == [s \in {"a", "b"} |-> IF s = "a" THEN <<"c", "a", "5">> ELSE <<"c", "a", "f", "c">>]
GoodLine(stem, j) ==
  Some([id |-> stable_id(StemText[stem] \o <<"|">> \o <<Digits[j + 1]>>),
        court_path |-> StemText[stem]])

\* load_records: every line of every file in glob order; orjson.loads raises on a
\* line it cannot decode and nothing catches it, so the generator ends there.
RECURSIVE LoadLines(_, _)
LoadLines(stem, lines) ==
  IF lines = <<>> THEN [yielded |-> <<>>, raised |-> FALSE]
  ELSE IF Head(lines) = Malformed THEN [yielded |-> <<>>, raised |-> TRUE]
  ELSE LET rest == LoadLines(stem, Tail(lines))
       IN  [yielded |-> << <<Val(Head(lines)), stem>> >> \o rest.yielded,
            raised |-> rest.raised]
RECURSIVE load_records(_)
load_records(files) ==
  IF files = <<>> THEN [yielded |-> <<>>, raised |-> FALSE]
  ELSE LET first == LoadLines(Head(files).stem, Head(files).lines)
       IN  IF first.raised THEN first
           ELSE LET rest == load_records(Tail(files))
                IN  [yielded |-> first.yielded \o rest.yielded, raised |-> rest.raised]

\* items.append({...}) for each yielded pair: the stem is dropped
ItemsOf(pairs) == [j \in 1..Len(pairs) |-> pairs[j][1]]

\* model.encode(texts): an array of vecs.count rows of vecs.dim numbers
Encode(enc, n) == [count |-> Max(0, n + enc.delta), dim |-> enc.dim]

\* items[i:i+SHARD_SIZE]
PartDropsLast(its, start, size) == Slice(its, start, start + size - 1)
Part(its, start, size) == Slice(its, start, start + size)
\* len(vecs[i:i+SHARD_SIZE])
EmbsLen(v, start, size) == Max(0, Min(start + size, v.count) - start)

\* the shard dict: zip(part, embs) stops at the shorter of the two
ShardDoc(its, v, start, size) ==
  LET part == Part(its, start, size)
      zipped == Min(Len(part), EmbsLen(v, start, size))
  IN  [ shard_id |-> shard_id(start, size),
        model |-> MODEL_NAME,
        dim |-> DIM,
        count |-> Len(part),
        items |-> [j \in 1..zipped |->
                     [id |-> part[j].id, court_path |-> part[j].court_path,
                      embedding |-> v.dim]] ]

ManifestDoc(its, ids) ==
  [model |-> MODEL_NAME, dim |-> DIM, total |-> Len(its), shards |-> ids]

\* A file of index/: absent, open (truncated by open("w"), its dump not finished)
\* or closed; `by` is the build that opened it last.
NoDoc == [shard_id |-> <<>>, model |-> "", dim |-> 0, count |-> 0, items |-> <<>>]
NoManifest == [model |-> "", dim |-> 0, total |-> 0, shards |-> <<>>]
Absent(doc) == [state |-> "absent", by |-> 0, doc |-> doc]
Opened(b, doc) == [state |-> "open", by |-> b, doc |-> doc]
Closed(b, doc) == [state |-> "closed", by |-> b, doc |-> doc]

\* the names shard files can take within the bounds
ShardNames == {shard_id(j, 1) : j \in 0..(2 * MaxLines)}

\* the order of the script's statements after the embeddings are computed:
\* the shard loop, then the manifest
NextPhaseManifestFirst(phase) ==
  CASE phase = "encode" -> "manifest"
    [] phase = "manifest" -> "shard"
    [] phase = "shard" -> "done"
NextPhase(phase) ==
  CASE phase = "encode" -> "shard"
    [] phase = "shard" -> "manifest"
    [] phase = "manifest" -> "done"

\* range(0, len(items), SHARD_SIZE) has no further value
RangeExhausted(j, n) == j >= n

\* the generator is consumed into items; a raise ends the build
Load ==
  /\ bpc = "start"
  /\ LET r == load_records(raw)
     IN  /\ loaded' = r.yielded
         /\ items' = ItemsOf(r.yielded)
         /\ bpc' = IF r.raised THEN "crashed" ELSE "encode"
  /\ UNCHANGED <<raw, shard_size, encoder, vecs, si, shards, index, manifest, build>>
  /\ UNCHANGED hvars

EncodeAll ==
  /\ bpc = "encode"
  /\ vecs' = Encode(encoder, Len(items))
  /\ si' = 0 /\ shards' = <<>>
  /\ bpc' = NextPhase("encode")
  /\ UNCHANGED <<raw, shard_size, encoder, loaded, items, index, manifest, build>>
  /\ UNCHANGED hvars

\* (IDX / f"{shard_id}.json").open("w")
OpenShard ==
  /\ bpc = "shard" /\ ~RangeExhausted(si, Len(items))
  /\ index' = [index EXCEPT ![shard_id(si, shard_size)] = Opened(build, NoDoc)]
  /\ bpc' = "dump"
  /\ UNCHANGED <<raw, shard_size, encoder, loaded, items, vecs, si, shards, manifest, build>>
  /\ UNCHANGED hvars

\* json.dump(shard, f), the file is closed, shards.append(shard_id)
DumpShard ==
  /\ bpc = "dump"
  /\ index' = [index EXCEPT ![shard_id(si, shard_size)] =
               Closed(build, ShardDoc(items, vecs, si, shard_size))]
  /\ shards' = Append(shards, shard_id(si, shard_size))
  /\ si' = si + shard_size
  /\ bpc' = "shard"
  /\ UNCHANGED <<raw, shard_size, encoder, loaded, items, vecs, manifest, build>>
  /\ UNCHANGED hvars

\* the shard loop is over
EndShards ==
  /\ bpc = "shard" /\ RangeExhausted(si, Len(items))
  /\ bpc' = NextPhase("shard")
  /\ UNCHANGED <<raw, shard_size, encoder, loaded, items, vecs, si, shards, index, manifest,
                 build>>
  /\ UNCHANGED hvars

\* (IDX / "manifest.json").open("w")
OpenManifest ==
  /\ bpc = "manifest"
  /\ manifest' = Opened(build, NoManifest)
  /\ bpc' = "dump_manifest"
  /\ UNCHANGED <<raw, shard_size, encoder, loaded, items, vecs, si, shards, index, build>>
  /\ UNCHANGED hvars

DumpManifest ==
  /\ bpc = "dump_manifest"
  /\ manifest' = Closed(build, ManifestDoc(items, shards))
  /\ bpc' = NextPhase("manifest")
  /\ UNCHANGED <<raw, shard_size, encoder, loaded, items, vecs, si, shards, index, build>>
  /\ UNCHANGED hvars

\* A harvest between two builds may leave a court's file empty (no recent record).
Emptied(files, j) == [files EXCEPT ![j].lines = <<>>]
\* embed.py is started again on the same index/ directory
Rebuild ==
  /\ bpc \in {"done", "crashed"} /\ build < MaxBuilds
  /\ build' = build + 1
  /\ raw' \in {raw} \cup {Emptied(raw, j) : j \in 1..Len(raw)}
  /\ bpc' = "start"
  /\ loaded' = <<>> /\ items' = <<>> /\ vecs' = [count |-> 0, dim |-> 0]
  /\ si' = 0 /\ shards' = <<>>
  /\ UNCHANGED <<shard_size, encoder, index, manifest>>
  /\ UNCHANGED hvars

BNext ==
  \/ Load \/ EncodeAll \/ OpenShard \/ DumpShard \/ EndShards
  \/ OpenManifest \/ DumpManifest \/ Rebuild

\* -------------------------------------------------------- build inputs
Files(stem) ==
  UNION { {[stem |-> stem, lines |-> ls] :
             ls \in {[j \in 1..n |-> IF j \in bad THEN Malformed ELSE GoodLine(stem, j)] :
                       bad \in SUBSET (1..n)}} :
          n \in 0..MaxLines }
Encoders == {[delta |-> 0, dim |-> DIM], [delta |-> -1, dim |-> DIM],
             [delta |-> 0, dim |-> 2 * DIM]}

InitBuild ==
  /\ raw \in UNION { {<<fa, fb>>, <<fb, fa>>} : fa \in Files("a"), fb \in Files("b") }
  /\ shard_size \in 1..MaxShardSize
  /\ encoder \in Encoders
  /\ bpc = "start" /\ loaded = <<>> /\ items = <<>> /\ vecs = [count |-> 0, dim |-> 0]
  /\ si = 0 /\ shards = <<>>
  /\ index = [s \in ShardNames |-> Absent(NoDoc)]
  /\ manifest = Absent(NoManifest)
  /\ build = 1

\* ------------------------------------------------------- specifications
HarvestIdle ==
  /\ courts = <<>> /\ upstream = <<>> /\ today = Today
  /\ days_back = DefaultDaysBack /\ limit = DefaultLimit
  /\ k = 1 /\ hpc = "idle" /\ i = 0 /\ records = <<>> /\ data = <<>>
  /\ status = "done" /\ failure = <<>> /\ log = <<>> /\ runs = MaxRuns /\ firstRun = <<>>
BuildIdle ==
  /\ raw = <<>> /\ shard_size = 1 /\ encoder = [delta |-> 0, dim |-> DIM]
  /\ bpc = "idle" /\ loaded = <<>> /\ items = <<>> /\ vecs = [count |-> 0, dim |-> 0]
  /\ si = 0 /\ shards = <<>> /\ index = <<>> /\ manifest = Absent(NoManifest)
  /\ build = MaxBuilds

\* scrape.py as written, over DEFAULT_COURTS
RunInit == InitRun /\ BuildIdle
SpecRun == RunInit /\ [][HNext]_vars
\* harvest_one on one court
HarvestInit == InitHarvest /\ BuildIdle
SpecHarvest == HarvestInit /\ [][HNext]_vars
\* embed.py
BuildInit == InitBuild /\ HarvestIdle
SpecBuild == BuildInit /\ [][BNext]_vars

\* =============================================================== claims
\* ------------------------------------------------------------ embed.py
\* ceil(n / size)
NumShards(n, size) == (n + size - 1) \div size
\* the name the claims give shard j, for j < 10
PaddedName(j) == <<"s", "h", "a", "r", "d", "_", "0", "0", "0", Digits[j + 1]>>
RECURSIVE SumCounts(_)
SumCounts(names) ==
  IF names = <<>> THEN 0 ELSE index[Head(names)].doc.count + SumCounts(Tail(names))
Encoded == bpc \in {"shard", "dump", "manifest", "dump_manifest", "done"}

\* C2: whenever a complete manifest is present, every shard file it lists is fully
\* written, by the build that wrote the manifest, and the counts of the listed
\* shards sum to the manifest's total.
C2_ManifestNeverPartial ==
  manifest.state = "closed" =>
    /\ \A j \in 1..Len(manifest.doc.shards) :
         /\ index[manifest.doc.shards[j]].state = "closed"
         /\ index[manifest.doc.shards[j]].by = manifest.by
    /\ SumCounts(manifest.doc.shards) = manifest.doc.total

\* C3: within a build the manifest is the last write: once the build has opened
\* the manifest every shard file of the build is written and closed, and no step
\* changes a shard file after that.
C3_ManifestLast ==
  /\ [](manifest.by = build =>
          \A j \in 0..(NumShards(Len(items), shard_size) - 1) :
            /\ index[PaddedName(j)].state = "closed"
            /\ index[PaddedName(j)].by = build)
  /\ [][manifest.by = build => index' = index]_vars
C3_Witness ==
  /\ bpc = "done" /\ manifest.state = "closed" /\ manifest.by = build
  /\ Len(manifest.doc.shards) >= 2

\* C4: a finished build of n embedded items (one vector per item) with shard size S
\* has written exactly the ceil(n/S) files shard_0000.., shard j holding the items
\* at positions j*S .. min((j+1)*S, n)-1 in order with count the number it holds;
\* the manifest lists these ids in increasing j and its total is n, the sum of the
\* counts.
C4_Sharding ==
  (bpc = "done" /\ vecs.count = Len(items)) =>
    LET n == Len(items)
        m == NumShards(n, shard_size)
    IN  /\ manifest.state = "closed" /\ manifest.by = build
        /\ manifest.doc.total = n
        /\ manifest.doc.shards = [j \in 1..m |-> PaddedName(j - 1)]
        /\ SumCounts(manifest.doc.shards) = n
        /\ \A name \in ShardNames :
             index[name].by = build <=> \E j \in 0..(m - 1) : name = PaddedName(j)
        /\ \A j \in 0..(m - 1) :
             LET f == index[PaddedName(j)]
                 lo == j * shard_size
                 hi == Min((j + 1) * shard_size, n)
             IN  /\ f.state = "closed"
                 /\ f.doc.shard_id = PaddedName(j)
                 /\ f.doc.count = hi - lo
                 /\ Len(f.doc.items) = f.doc.count
                 /\ \A t \in 1..(hi - lo) :
                      /\ f.doc.items[t].id = items[lo + t].id
                      /\ f.doc.items[t].court_path = items[lo + t].court_path
C4_Witness ==
  /\ bpc = "done" /\ vecs.count = Len(items)
  /\ Len(items) = 3 /\ shard_size = 2
  /\ index[PaddedName(1)].doc.count = 1

\* C7: a build whose model returned a number of vectors other than the number of
\* texts, or vectors of a length other than DIM, writes no manifest; and in a
\* finished build every persisted embedding has the manifest's dim and every
\* shard's count is the number of items it holds.
C7_MismatchAborts ==
  /\ (Encoded /\ (vecs.count # Len(items) \/ (vecs.count > 0 /\ vecs.dim # DIM)))
       => manifest.by # build
  /\ bpc = "done" =>
       \A j \in 1..Len(manifest.doc.shards) :
         LET d == index[manifest.doc.shards[j]].doc
         IN  /\ d.count = Len(d.items)
             /\ \A t \in 1..Len(d.items) : d.items[t].embedding = manifest.doc.dim

\* C8: the load never aborts on a malformed line: once loading is over, every
\* well-formed line of every file has been yielded exactly once, with its stem.
C8_LoadSkipsMalformed ==
  bpc # "start" =>
    /\ bpc # "crashed"
    /\ \A f \in 1..Len(raw) : \A j \in 1..Len(raw[f].lines) :
         raw[f].lines[j] # Malformed =>
           Cardinality({t \in 1..Len(loaded) :
                          loaded[t] = <<Val(raw[f].lines[j]), raw[f].stem>>}) = 1

\* ----------------------------------------------------------- scrape.py
\* the site and the store file of the court being harvested
Site == upstream[courts[k]]
Harvesting == status = "running" /\ hpc \in {"loop", "write"}
Store(c) == data[slugify(c)]
\* the recs of the first n rows of a site, in the scraper's order
Rows(c, site, n) == [j \in 1..n |-> Rec(c, site, j - 1)]
RowCount(site) == Len(site.cols["case_names"].seq)
\* the claims' filter: kept unless dated strictly before today - days_back
Recent(r) == IsNone(r.date_filed) \/ Val(r.date_filed) >= today - days_back
Eligible(c, site, n) == SelectSeq(Rows(c, site, n), Recent)
Ids(recs) == [j \in 1..Len(recs) |-> recs[j].id]

\* C1: when the run over the courts has ended, every court whose own scraper
\* does not fail has been harvested and its store file written.
C1_FailureIsolated ==
  status \in {"done", "crashed"} =>
    \A c \in 1..Len(courts) :
      upstream[courts[c]].fail = "none" =>
        /\ Store(courts[c]).exists
        /\ \E j \in 1..Len(log) : log[j].fname = slugify(courts[c])

\* C5: of the rows harvest_one has taken, the kept ones are exactly those with no
\* date or a date on or after today - days_back, in order; a skipped row does not
\* count against limit (the loop is left early only with limit rows kept); and
\* the file written holds exactly the kept rows.
C5_RecencyFilter ==
  /\ Harvesting => records = Eligible(courts[k], Site, i)
  /\ (Harvesting /\ hpc = "write" /\ i < RowCount(Site)) => Len(records) >= limit
  /\ (status = "done" /\ Len(courts) = 1) =>
       Store(courts[1]).lines = Eligible(courts[1], upstream[courts[1]], i)
C5_Witness ==
  /\ status = "done" /\ i = 2
  /\ col(upstream[courts[1]], "case_dates", 0) = Some(today - days_back - 1)
  /\ col(upstream[courts[1]], "case_dates", 1) = Some(today - days_back)
  /\ Len(Store(courts[1]).lines) = 1
  /\ Store(courts[1]).lines[1].date_filed = Some(today - days_back)

\* C6: the file written holds the first limit eligible rows of the site, in the
\* scraper's order (all of them when there are fewer), never more than limit, and
\* no row after the limit-th kept one is taken.
C6_LimitEnforced ==
  (status = "done" /\ Len(courts) = 1) =>
    LET c == courts[1]
        all == Eligible(c, upstream[c], RowCount(upstream[c]))
    IN  /\ Len(Store(c).lines) <= limit
        /\ Store(c).lines = SubSeq(all, 1, Min(limit, Len(all)))
        /\ Len(all) > limit => Len(Eligible(c, upstream[c], i)) = limit

\* C9: a column that is absent or short never aborts the harvest (only a failing
\* import, construction or parse does), and each row taken is built with every
\* field its column has an entry for, the others absent.
C9_FieldDegrades ==
  /\ status = "crashed" => failure[1] \in FailKinds
  /\ Harvesting =>
       \A j \in 1..Len(records) : \E row \in 0..(i - 1) :
         LET r == records[j]
             has(f) == Site.cols[f].present /\ row + 1 <= Len(Site.cols[f].seq)
             cell(f) == IF has(f) THEN Some(Site.cols[f].seq[row + 1]) ELSE None
         IN  /\ r.case_name = cell("case_names")
             /\ r.docket = cell("docket_numbers")
             /\ r.date_filed = cell("case_dates")
             /\ r.precedential_status = cell("precedential_statuses")
             /\ r.neutral_citation = cell("neutral_citations")
             /\ r.summary = cell("summaries")
             /\ r.download_url = cell("download_urls")
             /\ r.source_url = IF has("case_names_urls") THEN cell("case_names_urls")
                               ELSE cell("urls")

\* C10 (as amended): the id is determined by (court_path, case_name, download_url)
\* alone, so records differing in date_filed only share their id; and after the
\* same court is harvested again on the same upstream data, day, days_back and
\* limit, its store holds the ids it held after the first harvest, each as many
\* times as then (the file is replaced, not appended to).
SameCase(r1, r2) ==
  /\ r1.court_path = r2.court_path
  /\ r1.case_name = r2.case_name
  /\ r1.download_url = r2.download_url
C10_ReharvestIdempotent ==
  /\ \A s \in DOMAIN data : \A a, b \in 1..Len(data[s].lines) :
       SameCase(data[s].lines[a], data[s].lines[b])
         => data[s].lines[a].id = data[s].lines[b].id
  /\ (runs >= 2 /\ status = "done") =>
       \A c \in 1..Len(courts) :
         Ids(Store(courts[c]).lines) = Ids(firstRun[slugify(courts[c])].lines)
C10_Witness ==
  /\ runs >= 2 /\ status = "done"
  /\ Len(Store(courts[1]).lines) = 2
  /\ Store(courts[1]).lines[1].id = Store(courts[1]).lines[2].id
  /\ Store(courts[1]).lines[1].date_filed # Store(courts[1]).lines[2].date_filed

\* C10 as stated: after the second harvest the store holds the same set of ids as
\* after the first, each once.
C10_EachIdOnce ==
  (runs >= 2 /\ status = "done") =>
    \A c \in 1..Len(courts) :
      LET now == Ids(Store(courts[c]).lines)
          before == Ids(firstRun[slugify(courts[c])].lines)
      IN  /\ Range(now) = Range(before)
          /\ \A a, b \in 1..Len(now) : now[a] = now[b] => a = b

====
